---- MODULE Spec2Model ----
(***************************************************************************)
(* Model of the X-ray image calibration program (src/main.cpp): main      *)
(* reads a grid of raw detector readings, process_data calibrates it in   *)
(* four stages, create_and_save_image and calculate_and_save_thickness     *)
(* encode the calibrated grid as pixel bytes.                              *)
(*                                                                         *)
(* A double is modelled bit for bit: IEEE 754 binary64 with its sign, its  *)
(* 53-bit mantissa and its exponent, signed zeros, subnormals, infinities  *)
(* and NaN.  Every addition, multiplication and division rounds to the     *)
(* nearest double, ties to even, and the sums are taken in the order of    *)
(* the loops.  The mantissa does not fit a 32-bit integer, so it is kept as *)
(* a sequence of 15-bit limbs.                                             *)
(*                                                                         *)
(* The image files are modelled by their pixel arrays (the buffer handed   *)
(* to generateBitmapImage); the BMP headers and the row padding are not.   *)
(***************************************************************************)
EXTENDS Integers, Naturals, Sequences, FiniteSets, TLC

VARIABLES pc, file, data, processed_data, median_betathrone, overall_median,
          median_detector, main_processed, normalized_image, thickness_image,
          choice, exit_code

vars == <<pc, file, data, processed_data, median_betathrone, overall_median,
          median_detector, main_processed, normalized_image, thickness_image,
          choice, exit_code>>

(***************************************************************************)
(* Program constants                                                       *)
(***************************************************************************)
SIGNAL_THRESHOLD == 2048
BETA_THORNE_ROWS_COUNT == 15
MEDIAN_DETECTOR_COUNT == 50

(***************************************************************************)
(* Natural numbers of any size: a sequence of limbs in base 2^15, the      *)
(* least significant first, with no zero limb at the top (0 is << >>).     *)
(***************************************************************************)
LIMB_BITS == 15
LIMB_BASE == 32768

Abs(x) == IF x < 0 THEN -x ELSE x
Max(a, b) == IF a > b THEN a ELSE b
Min(a, b) == IF a < b THEN a ELSE b

\* The element of a set of one element.  An operator evaluates an argument or
\* a LET definition where it is used, each time it is used; a variable bound
\* over a set of one element holds the value, evaluated once.
TheOne(S) == CHOOSE x \in S : TRUE

\* limb i of a (1 is the lowest), 0 above the top
Limb(a, i) == IF i >= 1 /\ i <= Len(a) THEN a[i] ELSE 0

\* a without the zero limbs at its top
RECURSIVE Norm(_)
Norm(a) ==
    IF a = <<>> THEN a
    ELSE IF a[Len(a)] = 0 THEN Norm(SubSeq(a, 1, Len(a) - 1))
    ELSE a

\* the natural number n < 2^31
BigOf(n) == Norm(<<n % LIMB_BASE, (n \div LIMB_BASE) % LIMB_BASE,
                   n \div (LIMB_BASE * LIMB_BASE)>>)

\* the value of a, for a < 2^31
IntOf(a) == Limb(a, 1) + LIMB_BASE * Limb(a, 2) + LIMB_BASE * LIMB_BASE * Limb(a, 3)

\* number of bits of a limb
LimbLen(x) == Cardinality({k \in 0 .. LIMB_BITS - 1 : 2 ^ k <= x})

\* number of bits of a
BitLen(a) == IF a = <<>> THEN 0 ELSE LIMB_BITS * (Len(a) - 1) + LimbLen(a[Len(a)])

\* -1, 0, 1 as a < b, a = b, a > b; i is the limb compared
RECURSIVE CmpFrom(_, _, _)
CmpFrom(a, b, i) ==
    IF i = 0 THEN 0
    ELSE IF a[i] < b[i] THEN -1
    ELSE IF a[i] > b[i] THEN 1
    ELSE CmpFrom(a, b, i - 1)

BigCmp(a, b) ==
    IF Len(a) < Len(b) THEN -1
    ELSE IF Len(a) > Len(b) THEN 1
    ELSE CmpFrom(a, b, Len(a))

\* a + b from limb i on, with carry c
RECURSIVE AddFrom(_, _, _, _)
AddFrom(a, b, i, c) ==
    IF i > Len(a) /\ i > Len(b)
    THEN (IF c = 0 THEN <<>> ELSE <<c>>)
    ELSE LET s == Limb(a, i) + Limb(b, i) + c
         IN  <<s % LIMB_BASE>> \o AddFrom(a, b, i + 1, s \div LIMB_BASE)

BigAdd(a, b) == AddFrom(a, b, 1, 0)

\* a - b from limb i on, with borrow c, for a >= b
RECURSIVE SubFrom(_, _, _, _)
SubFrom(a, b, i, c) ==
    IF i > Len(a) THEN <<>>
    ELSE LET s == a[i] - Limb(b, i) - c
         IN  <<s % LIMB_BASE>> \o SubFrom(a, b, i + 1, IF s < 0 THEN 1 ELSE 0)

BigSub(a, b) == Norm(SubFrom(a, b, 1, 0))

\* a * d from limb i on, with carry c, for a limb d
RECURSIVE MulLimbFrom(_, _, _, _)
MulLimbFrom(a, d, i, c) ==
    IF i > Len(a) THEN (IF c = 0 THEN <<>> ELSE <<c>>)
    ELSE LET s == a[i] * d + c
         IN  <<s % LIMB_BASE>> \o MulLimbFrom(a, d, i + 1, s \div LIMB_BASE)

\* a * (b from limb j on)
RECURSIVE MulFrom(_, _, _)
MulFrom(a, b, j) ==
    IF j > Len(b) THEN <<>>
    ELSE BigAdd(MulLimbFrom(a, b[j], 1, 0), <<0>> \o MulFrom(a, b, j + 1))

BigMul(a, b) == Norm(MulFrom(a, b, 1))

\* a * 2^k
BigShl(a, k) ==
    LET r == k % LIMB_BITS
        lo == 2 ^ (LIMB_BITS - r)
    IN  IF a = <<>> THEN a
        ELSE [i \in 1 .. k \div LIMB_BITS |-> 0]
             \o Norm([i \in 1 .. Len(a) + 1 |->
                         (Limb(a, i) % lo) * 2 ^ r + Limb(a, i - 1) \div lo])

\* floor(a / 2^k)
BigShr(a, k) ==
    LET q == k \div LIMB_BITS
        r == k % LIMB_BITS
        lo == 2 ^ r
    IN  IF q >= Len(a) THEN <<>>
        ELSE Norm([i \in 1 .. Len(a) - q |->
                      Limb(a, i + q) \div lo
                      + (Limb(a, i + q + 1) % lo) * 2 ^ (LIMB_BITS - r)])

\* bit k of a (bit 0 is the lowest)
BitAt(a, k) == (Limb(a, k \div LIMB_BITS + 1) \div 2 ^ (k % LIMB_BITS)) % 2

\* whether a bit of a below bit k is set
AnyBitBelow(a, k) ==
    \/ \E i \in 1 .. Min(k \div LIMB_BITS, Len(a)) : a[i] # 0
    \/ Limb(a, k \div LIMB_BITS + 1) % 2 ^ (k % LIMB_BITS) # 0

\* One step of the long division of r by b in base 2^15, for b of 4 limbs
\* with b[4] >= 2^14 and r < b * 2^15: the digit q and the rest r - q * b.
\* The digit estimated from the top limbs is at most 2 too large; t is q * b.
RECURSIVE DivFix(_, _, _, _)
DivFix(q, t, r, b) ==
    IF BigCmp(t, r) > 0 THEN DivFix(q - 1, BigSub(t, b), r, b)
    ELSE [q |-> q, r |-> BigSub(r, t)]

DivDigit(r, b) ==
    TheOne({ DivFix(q, Norm(MulLimbFrom(b, q, 1, 0)), r, b) :
               q \in {Min((Limb(r, 5) * LIMB_BASE + Limb(r, 4)) \div b[4],
                          LIMB_BASE - 1)} })

\* the next digit of a long division: st.q holds the digits found, lowest
\* first, st.r the rest, shifted one limb for the step that follows
DivStep(st, b) ==
    TheOne({ [q |-> <<d.q>> \o st.q,
              r |-> IF d.r = <<>> THEN d.r ELSE <<0>> \o d.r] :
               d \in {DivDigit(st.r, b)} })

\* n more digits
RECURSIVE DivLimbs(_, _, _)
DivLimbs(st, b, n) ==
    IF n = 0 THEN st
    ELSE TheOne({ DivLimbs(next, b, n - 1) : next \in {DivStep(st, b)} })

(***************************************************************************)
(* double: IEEE 754 binary64 with rounding to nearest, ties to even.       *)
(* A number is (-1)^neg * m * 2^e with m a natural number of 53 bits and   *)
(* -1074 <= e <= 971, or m below 2^52 and e = -1074 (subnormal, zero).     *)
(***************************************************************************)
MANT_BITS == 53
MIN_EXP == -1074
MAX_EXP == 971

NaN == [cls |-> "nan", neg |-> FALSE, m |-> <<>>, e |-> 0]
Inf(neg) == [cls |-> "inf", neg |-> neg, m |-> <<>>, e |-> 0]
PosInf == Inf(FALSE)
SignedZero(neg) == [cls |-> "num", neg |-> neg, m |-> <<>>, e |-> MIN_EXP]
Zero == SignedZero(FALSE)

IsNaN(x) == x.cls = "nan"
IsFinite(x) == x.cls = "num"
IsZero(x) == x.cls = "num" /\ x.m = <<>>

\* the number (-1)^neg * m * 2^e, an infinity beyond the largest double
Pack(neg, m, e) ==
    IF e > MAX_EXP THEN Inf(neg)
    ELSE [cls |-> "num", neg |-> neg, m |-> m, e |-> e]

\* RoundPack for n # 0 of len bits, of which the lowest shift are dropped
RoundShift(neg, n, e, sticky, len, shift) ==
    IF shift <= 0
    THEN Pack(neg, BigShl(n, Min(MANT_BITS - len, e - MIN_EXP)),
              e - Min(MANT_BITS - len, e - MIN_EXP))
    ELSE LET q == BigShr(n, shift)
             half == BitAt(n, shift - 1) = 1
             rest == sticky \/ AnyBitBelow(n, shift - 1)
         IN  TheOne({ IF BitLen(r) > MANT_BITS
                      THEN Pack(neg, BigShr(r, 1), e + shift + 1)
                      ELSE Pack(neg, r, e + shift) :
                        r \in {IF half /\ (rest \/ BitAt(q, 0) = 1)
                               THEN BigAdd(q, <<1>>) ELSE q} })

\* the double nearest to (-1)^neg * (n + f) * 2^e, ties to even, where
\* 0 <= f < 1 and sticky tells whether f > 0 (then n has more than 54 bits)
RoundPack(neg, n, e, sticky) ==
    TheOne({ IF v = <<>> /\ ~sticky THEN SignedZero(neg)
             ELSE RoundShift(neg, v, e, sticky, BitLen(v),
                             Max(BitLen(v) - MANT_BITS, MIN_EXP - e)) :
               v \in {n} })

\* static_cast<double>(n) of an int n
FromInt(n) == RoundPack(n < 0, BigOf(Abs(n)), 0, FALSE)
One == FromInt(1)

\* -1, 0, 1 as |x| < |y|, |x| = |y|, |x| > |y|, for numbers
CmpMag(x, y) ==
    IF x.e < y.e THEN -1 ELSE IF x.e > y.e THEN 1 ELSE BigCmp(x.m, y.m)

\* x + y for numbers that are not both zero, with a = |x| / 2^e, b = |y| / 2^e
AddAligned(x, y, e, a, b) ==
    IF x.neg = y.neg THEN RoundPack(x.neg, BigAdd(a, b), e, FALSE)
    ELSE IF BigCmp(a, b) = 0 THEN Zero
    ELSE RoundPack(IF BigCmp(a, b) > 0 THEN x.neg ELSE y.neg,
                   IF BigCmp(a, b) > 0 THEN BigSub(a, b) ELSE BigSub(b, a),
                   e, FALSE)

AddValues(x, y) ==
    IF IsNaN(x) \/ IsNaN(y) THEN NaN
    ELSE IF ~IsFinite(x) THEN (IF ~IsFinite(y) /\ x.neg # y.neg THEN NaN ELSE x)
    ELSE IF ~IsFinite(y) THEN y
    ELSE IF IsZero(x) /\ IsZero(y) THEN SignedZero(x.neg /\ y.neg)
    ELSE IF IsZero(y) \/ x.e - y.e > MANT_BITS + 2 THEN x
    ELSE IF IsZero(x) \/ y.e - x.e > MANT_BITS + 2 THEN y
    ELSE TheOne({ AddAligned(x, y, Min(x.e, y.e), a, b) :
                    a \in {BigShl(x.m, x.e - Min(x.e, y.e))},
                    b \in {BigShl(y.m, y.e - Min(x.e, y.e))} })

\* x + y
Add(x, y) == TheOne({ AddValues(a, b) : a \in {x}, b \in {y} })

MulValues(x, y) ==
    IF IsNaN(x) \/ IsNaN(y) THEN NaN
    ELSE IF ~IsFinite(x) \/ ~IsFinite(y)
    THEN (IF IsZero(x) \/ IsZero(y) THEN NaN ELSE Inf(x.neg # y.neg))
    ELSE RoundPack(x.neg # y.neg, BigMul(x.m, y.m), x.e + y.e, FALSE)

\* x * y
Mul(x, y) == TheOne({ MulValues(a, b) : a \in {x}, b \in {y} })

\* x / y for numbers that are not zero, with a = |x| * 2^sx and b = |y| * 2^sy
\* of 60 bits each: 5 digits of the long division, then the rounding
DivAligned(x, y, sx, sy, a, b) ==
    TheOne({ RoundPack(x.neg # y.neg, Norm(d.q),
                       (x.e - sx) - (y.e - sy) - 4 * LIMB_BITS, d.r # <<>>) :
               d \in {DivLimbs([q |-> <<>>, r |-> a], b, 5)} })

DivValues(x, y) ==
    IF IsNaN(x) \/ IsNaN(y) THEN NaN
    ELSE IF ~IsFinite(x) THEN (IF ~IsFinite(y) THEN NaN ELSE Inf(x.neg # y.neg))
    ELSE IF ~IsFinite(y) THEN SignedZero(x.neg # y.neg)
    ELSE IF IsZero(y) THEN (IF IsZero(x) THEN NaN ELSE Inf(x.neg # y.neg))
    ELSE IF IsZero(x) THEN SignedZero(x.neg # y.neg)
    ELSE TheOne({ DivAligned(x, y, 4 * LIMB_BITS - BitLen(x.m),
                             4 * LIMB_BITS - BitLen(y.m), a, b) :
                    a \in {BigShl(x.m, 4 * LIMB_BITS - BitLen(x.m))},
                    b \in {BigShl(y.m, 4 * LIMB_BITS - BitLen(y.m))} })

\* x / y
Div(x, y) == TheOne({ DivValues(a, b) : a \in {x}, b \in {y} })

GtValues(x, y) ==
    IF IsNaN(x) \/ IsNaN(y) THEN FALSE
    ELSE IF ~IsFinite(x) THEN ~x.neg /\ x # y
    ELSE IF ~IsFinite(y) THEN y.neg
    ELSE IF IsZero(x) /\ IsZero(y) THEN FALSE
    ELSE IF x.neg # y.neg THEN y.neg
    ELSE IF x.neg THEN CmpMag(x, y) < 0
    ELSE CmpMag(x, y) > 0

\* x > y ; every comparison with NaN is false
Gt(x, y) == \E a \in {x} : \E b \in {y} : GtValues(a, b)

\* x != 0
NonZero(x) == ~IsZero(x)

\* (double)n / (double)d
Ratio(n, d) == Div(FromInt(n), FromInt(d))

(***************************************************************************)
(* Input file "block.int": declared width and height, then the readings.   *)
(***************************************************************************)
MaxRamp == 1
RawLevels == {-3, 2048, 2056}
\* <<level, ramp>> of the files with one level for all regions
UniformLevels == ((RawLevels \cup {2050}) \X (0 .. MaxRamp)) \cup {<<3000, 0>>}
Regions == {"body", "strip", "ref_body", "ref_strip"}

\* the region of reading (i, j) in a grid of h rows and w columns
RegionOf(i, j, h, w) ==
    IF i + BETA_THORNE_ROWS_COUNT >= h
    THEN (IF j + MEDIAN_DETECTOR_COUNT >= w THEN "ref_strip" ELSE "ref_body")
    ELSE (IF j + MEDIAN_DETECTOR_COUNT >= w THEN "strip" ELSE "body")

\* the readings of a file: one level per region plus a checkerboard ramp
Readings(h, w, sel, ramp) ==
    [i \in 0 .. h - 1 |-> [j \in 0 .. w - 1 |->
        sel[RegionOf(i, j, h, w)] + ramp * ((i + j) % 2)]]

\* <<height, width>> of the files tried with every choice of levels
FullSizes == {<<15, 50>>, <<17, 52>>}
\* <<height, width>> of the files tried with one level for all regions
UniformSizes == {<<20, 60>>, <<10, 60>>, <<14, 50>>, <<20, 49>>, <<16, 3>>, <<3, 4>>,
                 <<0, 60>>, <<20, 0>>, <<0, 0>>}

Empty == <<>>

\* a file of 16 rows and 52 columns whose two cells outside the strips come
\* out of process_data on either side of the step of the thickness transform
\* between the bytes 24 and 25 (0.3753110985... and 0.3753110989...)
StepFile ==
    [is_open |-> TRUE, height |-> 16, width |-> 52,
     cells |-> [i \in 0 .. 15 |-> [j \in 0 .. 51 |->
                   IF i > 0 THEN 3072
                   ELSE IF j = 0 THEN 2048 + 805973678
                   ELSE IF j = 1 THEN 2048 + 805973679
                   ELSE 2048 + 2147481599]]]

\* "block.int" cannot be opened
NoFile == [is_open |-> FALSE, height |-> 0, width |-> 0, cells |-> Empty]

Files ==
    { [is_open |-> TRUE, height |-> s[1], width |-> s[2],
       cells |-> Readings(s[1], s[2], sel, ramp)] :
        s \in FullSizes, sel \in [Regions -> RawLevels], ramp \in 0 .. MaxRamp }
    \cup
    { [is_open |-> TRUE, height |-> s[1], width |-> s[2],
       cells |-> Readings(s[1], s[2], [r \in Regions |-> u[1]], u[2])] :
        s \in UniformSizes, u \in UniformLevels }
    \cup {NoFile, StepFile}

(***************************************************************************)
(* process_data, stage by stage                                            *)
(***************************************************************************)
Rows(g) == DOMAIN g
Cols(g) == DOMAIN g[0]

\* mutant: the threshold is compared but not subtracted
BackgroundCell_NoSubtract(raw) ==
    [value |-> IF raw > SIGNAL_THRESHOLD THEN FromInt(raw) ELSE Zero,
     is_calibrated |-> FALSE]

\* mutant: the threshold is subtracted from every reading, with no floor at 0
BackgroundCell_NoFloor(raw) ==
    [value |-> FromInt(raw - SIGNAL_THRESHOLD), is_calibrated |-> FALSE]

\* lines 145-150: one cell of the background normalization
BackgroundCell(raw) ==
    [value |-> IF raw > SIGNAL_THRESHOLD THEN FromInt(raw - SIGNAL_THRESHOLD) ELSE Zero,
     is_calibrated |-> FALSE]

\* lines 143-152
BackgroundNormalization(d) ==
    [i \in Rows(d) |-> [j \in Cols(d) |-> BackgroundCell(d[i][j])]]

\* sum += t[k] for k = lo, ..., hi in this order.  The first half of the
\* range is added before the second, which keeps the order of the loop and
\* the evaluation shallow.
RECURSIVE SumFrom(_, _, _, _)
SumFrom(sum, t, lo, hi) ==
    IF lo > hi THEN sum
    ELSE IF lo = hi THEN Add(sum, t[lo])
    ELSE TheOne({ SumFrom(half, t, (lo + hi) \div 2 + 1, hi) :
                    half \in {SumFrom(sum, t, lo, (lo + hi) \div 2)} })

\* sum = 0.0, then sum += t[k] for k = lo, ..., hi in this order
SumRange(t, lo, hi) == SumFrom(Zero, t, lo, hi)

\* sum of g[i][j].value for i = lo, ..., hi (lines 160-164)
ColumnSum(g, j, lo, hi) ==
    SumRange([i \in lo .. hi |-> g[i][j].value], lo, hi)

\* lines 158-166: the reference average of every column
MedianBetathrone(g, m, n) ==
    [j \in 0 .. n - 1 |->
        Div(ColumnSum(g, j, m - BETA_THORNE_ROWS_COUNT, m - 1),
            FromInt(BETA_THORNE_ROWS_COUNT))]

\* std::accumulate(v.begin(), v.end(), 0.0) over v[0..k]
Accumulate(v, k) == SumRange(v, 0, k)

\* line 167
OverallMedian(mb, n) == Div(Accumulate(mb, n - 1), FromInt(n))

\* lines 161-164: the flags written while the reference rows are summed
MarkBetaRows(g, m, n) ==
    [i \in 0 .. m - 1 |-> [j \in 0 .. n - 1 |->
        IF i >= m - BETA_THORNE_ROWS_COUNT
        THEN [g[i][j] EXCEPT !.is_calibrated = TRUE] ELSE g[i][j]]]

\* mutant: the scaling without the test for a zero reference
ScaleCell_NoGuard(c, ref, overall) ==
    IF ~c.is_calibrated
    THEN [c EXCEPT !.value = Mul(c.value, Div(overall, ref))]
    ELSE c

\* lines 171-179: one cell of the proportion scaling
ScaleCell(c, ref, overall) ==
    IF ~c.is_calibrated
    THEN IF NonZero(ref)
         THEN [c EXCEPT !.value = Mul(c.value, Div(overall, ref))]
         ELSE [c EXCEPT !.value = Zero]
    ELSE c

\* lines 169-181
ScaleByProportion(g, mb, overall, m, n) ==
    [i \in 0 .. m - 1 |-> [j \in 0 .. n - 1 |-> ScaleCell(g[i][j], mb[j], overall)]]

\* mutant: the cells already calibrated are summed too
RowSum_IncludesCalibrated(g, i, lo, hi) ==
    SumRange([j \in lo .. hi |-> g[i][j].value], lo, hi)

\* lines 191-194: sum += value for the cells of row i in columns lo, ..., hi
\* that are not yet calibrated, in this order (the first half of the range
\* before the second)
RECURSIVE RowSumFrom(_, _, _, _, _)
RowSumFrom(sum, g, i, lo, hi) ==
    IF lo > hi THEN sum
    ELSE IF lo = hi
    THEN (IF ~g[i][lo].is_calibrated THEN Add(sum, g[i][lo].value) ELSE sum)
    ELSE TheOne({ RowSumFrom(half, g, i, (lo + hi) \div 2 + 1, hi) :
                    half \in {RowSumFrom(sum, g, i, lo, (lo + hi) \div 2)} })

\* lines 189-195: sum = 0.0, then the loop over the columns lo, ..., hi
RowSum(g, i, lo, hi) == RowSumFrom(Zero, g, i, lo, hi)

\* lines 187-197: the reference average of every row
MedianDetector(g, m, n) ==
    [i \in 0 .. m - 1 |->
        Div(RowSum(g, i, n - MEDIAN_DETECTOR_COUNT, n - 1),
            FromInt(MEDIAN_DETECTOR_COUNT))]

\* mutant: the strip starts one column late
MarkDetectorColumns_OffByOne(g, m, n) ==
    [i \in 0 .. m - 1 |-> [j \in 0 .. n - 1 |->
        IF j > n - MEDIAN_DETECTOR_COUNT /\ ~g[i][j].is_calibrated
        THEN [g[i][j] EXCEPT !.is_calibrated = TRUE] ELSE g[i][j]]]

\* lines 190-195: the flags written while the detector columns are summed
MarkDetectorColumns(g, m, n) ==
    [i \in 0 .. m - 1 |-> [j \in 0 .. n - 1 |->
        IF j >= n - MEDIAN_DETECTOR_COUNT /\ ~g[i][j].is_calibrated
        THEN [g[i][j] EXCEPT !.is_calibrated = TRUE] ELSE g[i][j]]]

\* mutant: every cell is divided, calibrated or not
DivideCell_IgnoresFlag(c, ref) == [c EXCEPT !.value = Div(c.value, ref)]

\* lines 201-203
DivideCell(c, ref) ==
    IF ~c.is_calibrated THEN [c EXCEPT !.value = Div(c.value, ref)] ELSE c

\* lines 204-206
ClampCell(c) ==
    IF Gt(c.value, One) THEN [c EXCEPT !.value = One] ELSE c

\* lines 199-208
DivideAndClamp(g, md, m, n) ==
    [i \in 0 .. m - 1 |-> [j \in 0 .. n - 1 |-> ClampCell(DivideCell(g[i][j], md[i]))]]

(***************************************************************************)
(* main and the steps of process_data                                      *)
(***************************************************************************)
\* data.size() and data[0].size() (lines 139-140)
RowCount(d) == Cardinality(DOMAIN d)
ColCount(d) == Cardinality(DOMAIN d[0])

Init ==
    /\ pc = "read"
    /\ file \in Files
    /\ data = Empty
    /\ processed_data = Empty
    /\ median_betathrone = Empty
    /\ overall_median = Zero
    /\ median_detector = Empty
    /\ main_processed = Empty
    /\ normalized_image = Empty
    /\ thickness_image = Empty
    /\ choice = 0
    /\ exit_code = -1

\* the catch block of main (lines 278-281)
Catch ==
    /\ pc' = "error"
    /\ exit_code' = 1

\* mutant: only the height is tested
ZeroDimension_HeightOnly(height, width) == height = 0

\* the test of line 121
ZeroDimension(height, width) == height = 0 \/ width = 0

\* read_data_from_file returns the grid (lines 125-134)
ReadData ==
    /\ pc = "read"
    /\ file.is_open
    /\ ~ZeroDimension(file.height, file.width)
    /\ data' = file.cells
    /\ pc' = "background"
    /\ UNCHANGED <<file, processed_data, median_betathrone, overall_median,
                   median_detector, main_processed, normalized_image,
                   thickness_image, choice, exit_code>>

\* read_data_from_file throws: the file cannot be opened (lines 110-113)
ReadDataNoFile ==
    /\ pc = "read"
    /\ ~file.is_open
    /\ Catch
    /\ UNCHANGED <<file, data, processed_data, median_betathrone, overall_median,
                   median_detector, main_processed, normalized_image,
                   thickness_image, choice>>

\* read_data_from_file throws on a zero dimension (lines 121-123)
ReadDataZero ==
    /\ pc = "read"
    /\ file.is_open
    /\ ZeroDimension(file.height, file.width)
    /\ Catch
    /\ UNCHANGED <<file, data, processed_data, median_betathrone, overall_median,
                   median_detector, main_processed, normalized_image,
                   thickness_image, choice>>

\* process_data, stage 1 (lines 139-152)
Background ==
    /\ pc = "background"
    /\ processed_data' = BackgroundNormalization(data)
    /\ pc' = "beta_thorne"
    /\ UNCHANGED <<file, data, median_betathrone, overall_median, median_detector,
                   main_processed, normalized_image, thickness_image, choice,
                   exit_code>>

\* process_data, stage 2 (lines 158-181)
BetaThorne ==
    /\ pc = "beta_thorne"
    /\ ~(RowCount(data) < BETA_THORNE_ROWS_COUNT)
    /\ LET m == RowCount(data)
           n == ColCount(data)
       IN  /\ median_betathrone' = MedianBetathrone(processed_data, m, n)
           /\ overall_median' = OverallMedian(median_betathrone', n)
           /\ processed_data' =
                  ScaleByProportion(MarkBetaRows(processed_data, m, n),
                                    median_betathrone', overall_median', m, n)
    /\ pc' = "detector"
    /\ UNCHANGED <<file, data, median_detector, main_processed, normalized_image,
                   thickness_image, choice, exit_code>>

\* process_data throws: not enough rows (lines 155-157)
BetaThorneThrow ==
    /\ pc = "beta_thorne"
    /\ RowCount(data) < BETA_THORNE_ROWS_COUNT
    /\ Catch
    /\ UNCHANGED <<file, data, processed_data, median_betathrone, overall_median,
                   median_detector, main_processed, normalized_image,
                   thickness_image, choice>>

\* process_data, stage 3, the reference columns (lines 187-197)
Detector ==
    /\ pc = "detector"
    /\ ~(ColCount(data) < MEDIAN_DETECTOR_COUNT)
    /\ LET m == RowCount(data)
           n == ColCount(data)
       IN  /\ median_detector' = MedianDetector(processed_data, m, n)
           /\ processed_data' = MarkDetectorColumns(processed_data, m, n)
    /\ pc' = "divide_clamp"
    /\ UNCHANGED <<file, data, median_betathrone, overall_median, main_processed,
                   normalized_image, thickness_image, choice, exit_code>>

\* process_data throws: not enough columns (lines 184-186)
DetectorThrow ==
    /\ pc = "detector"
    /\ ColCount(data) < MEDIAN_DETECTOR_COUNT
    /\ Catch
    /\ UNCHANGED <<file, data, processed_data, median_betathrone, overall_median,
                   median_detector, main_processed, normalized_image,
                   thickness_image, choice>>

\* process_data, the division and the clamp, and its return to main
\* (lines 199-209, 265)
DivideClamp ==
    /\ pc = "divide_clamp"
    /\ processed_data' = DivideAndClamp(processed_data, median_detector,
                                        RowCount(data), ColCount(data))
    /\ main_processed' = processed_data'
    /\ pc' = "save_normalized"
    /\ UNCHANGED <<file, data, median_betathrone, overall_median, median_detector,
                   normalized_image, thickness_image, choice, exit_code>>

(***************************************************************************)
(* create_and_save_image                                                   *)
(***************************************************************************)
Bytes == 0 .. 255

\* The conversion of a NaN, an infinity or a value out of the range of the
\* target type is undefined.  The outcomes explored: the conversion through a
\* 32-bit integer that x86-64 builds make (the low byte of the truncated
\* value, 0 for a NaN, an infinity or a value out of the range of int), and
\* any of these bytes.  The field up is read by the thickness transform only.
\* An encoder is one loop over the cells, so its outcome is a function of the
\* value converted: one outcome for each such value of the grid.
UndefinedBytes == {0, 128, 255}
Defined == [mode |-> "byte", byte |-> 0, up |-> FALSE]
UndefinedOutcomes ==
    {[mode |-> "via_int", byte |-> 0, up |-> FALSE]}
    \cup {[mode |-> "byte", byte |-> b, up |-> FALSE] : b \in UndefinedBytes}

\* the integer part of |x| for a number x
TruncBig(x) == IF x.e >= 0 THEN BigShl(x.m, x.e) ELSE BigShr(x.m, -x.e)

\* whether the integer part of x is the value of an int
InIntRange(x) == IsFinite(x) /\ BitLen(TruncBig(x)) <= 31

\* the integer part of x (the truncation of static_cast), for x in the range
\* of int
Trunc(x) == (IF x.neg THEN -1 ELSE 1) * IntOf(TruncBig(x))

\* std::round(x) for x in the range of int: the nearest integer, halves away
\* from zero
RoundInt(x) ==
    (IF x.neg THEN -1 ELSE 1)
    * (IntOf(TruncBig(x)) + (IF x.e < 0 THEN BitAt(x.m, -x.e - 1) ELSE 0))

\* mutant: the conversion rounds to the nearest integer
ToUnsignedChar_Rounds(x, ub) ==
    IF InIntRange(x) /\ RoundInt(x) \in Bytes THEN RoundInt(x) ELSE ub.byte

\* static_cast<unsigned char>(x) (line 225); ub is the outcome where the
\* conversion is undefined
ToUnsignedChar(x, ub) ==
    IF InIntRange(x) /\ Trunc(x) \in Bytes THEN Trunc(x)
    ELSE IF ub.mode = "via_int"
    THEN (IF InIntRange(x) THEN Trunc(x) % 256 ELSE 0)
    ELSE ub.byte

\* whether static_cast<unsigned char>(c.value * 255) is undefined
CastUndefined(c) ==
    LET x == Mul(c.value, FromInt(255))
    IN  ~c.is_calibrated /\ (~InIntRange(x) \/ Trunc(x) \notin Bytes)

\* lines 220-229: the pixel of one cell
NormalizedPixel(c, ub) ==
    IF c.is_calibrated
    THEN [r |-> 255, g |-> 0, b |-> 0]
    ELSE LET color_value == ToUnsignedChar(Mul(c.value, FromInt(255)), ub)
         IN  [r |-> color_value, g |-> color_value, b |-> color_value]

\* the values held by the cells of a grid
ValuesOf(g) == {g[i][j].value : i \in Rows(g), j \in Cols(g)}

\* the outcome chosen for value v, if v is one of the values with a choice
OutcomeOf(ub, v) == IF v \in DOMAIN ub THEN ub[v] ELSE Defined

\* lines 217-231; ub gives the outcome of each undefined conversion
NormalizedImage(g, ub) ==
    [i \in Rows(g) |-> [j \in Cols(g) |->
        NormalizedPixel(g[i][j], OutcomeOf(ub, g[i][j].value))]]

\* the outcomes of the undefined conversions of a grid: one for each value
\* whose conversion is undefined
UndefinedNormalized(g) ==
    [{g[i][j].value : <<i, j>> \in {p \in Rows(g) \X Cols(g) :
                                        CastUndefined(g[p[1]][p[2]])}}
        -> UndefinedOutcomes]

(***************************************************************************)
(* calculate_and_save_thickness                                            *)
(***************************************************************************)
LOG_SENTINEL == 10
THICKNESS_SCALE == 25

STEP_BITS == 75
WINDOW_BITS == 45

\* ExpTable[k + 1] = floor(2^75 * exp(-(k + 1/2) / THICKNESS_SCALE)), k in
\* 0..255, as limbs: round(-ln(v) * 25) > k  iff  v < exp(-(k + 1/2) / 25)
ExpTable ==
    <<
       <<5629, 11705, 11756, 4919, 32119>>, <<7185, 17268, 2269, 24256, 30859>>, <<2703, 7488, 21803, 23347, 29649>>,
       <<20394, 32213, 12665, 4281, 28487>>, <<9909, 18455, 10931, 4400, 27370>>, <<29377, 1141, 30098, 30669, 26296>>,
       <<16461, 21283, 4548, 26816, 25265>>, <<14283, 628, 17276, 4307, 24275>>, <<21300, 23239, 20715, 9500, 23323>>,
       <<22562, 17439, 29192, 25252, 22408>>, <<6092, 23334, 24956, 3610, 21530>>, <<6902, 22, 32374, 29572, 20685>>,
       <<7859, 1279, 28566, 26104, 19874>>, <<24918, 925, 14315, 16211, 19095>>, <<10024, 11768, 12142, 24565, 18346>>,
       <<21813, 16148, 20760, 11905, 17627>>, <<29008, 10309, 20773, 6046, 16936>>, <<29662, 20593, 28330, 3513, 16272>>,
       <<31427, 20678, 29731, 2253, 15634>>, <<14209, 10274, 23312, 1578, 15021>>, <<15562, 32080, 1854, 2112, 14432>>,
       <<23542, 20665, 3784, 5738, 13866>>, <<15750, 1922, 1079, 15552, 13322>>, <<12236, 6936, 14517, 3044, 12800>>,
       <<2508, 1626, 27792, 6359, 12298>>, <<31759, 22968, 25775, 31948, 11815>>, <<19850, 17900, 23566, 21757, 11352>>,
       <<964, 31811, 18573, 17028, 10907>>, <<6454, 3772, 27359, 27187, 10479>>, <<19658, 4782, 8585, 29809, 10068>>,
       <<24334, 16313, 30566, 3345, 9674>>, <<21752, 10919, 26175, 25399, 9294>>, <<435, 8268, 18033, 10544, 8930>>,
       <<8896, 5770, 25819, 5205, 8580>>, <<25524, 14330, 14472, 23790, 8243>>, <<26682, 18202, 12759, 15889, 7920>>,
       <<15828, 1526, 7448, 30089, 7609>>, <<18110, 940, 4823, 17337, 7311>>, <<7535, 13932, 28748, 27522, 7024>>,
       <<21151, 10878, 21138, 12845, 6749>>, <<19065, 22781, 3973, 24398, 6484>>, <<6306, 30208, 10082, 15535, 6230>>,
       <<12631, 16592, 10850, 5692, 5986>>, <<20454, 9033, 3529, 14827, 5751>>, <<28728, 16783, 27661, 30631, 5525>>,
       <<12017, 2613, 11230, 8513, 5309>>, <<26794, 27043, 2562, 2646, 5101>>, <<450, 724, 566, 2114, 4901>>,
       <<1992, 17240, 4925, 29197, 4708>>, <<25534, 22897, 23215, 8282, 4524>>, <<9204, 2055, 1268, 27993, 4346>>,
       <<6387, 5407, 3634, 13490, 4176>>, <<19371, 9013, 20738, 21372, 4012>>, <<27385, 13052, 24531, 10285, 3855>>,
       <<22132, 22656, 9752, 4747, 3704>>, <<18079, 25194, 20077, 29598, 3558>>, <<11605, 21082, 27389, 11687, 3419>>,
       <<30119, 6063, 23955, 9233, 3285>>, <<29019, 2126, 31956, 15205, 3156>>, <<16973, 6703, 29760, 22849, 3032>>,
       <<22770, 27157, 23719, 25675, 2913>>, <<25707, 11385, 2785, 17448, 2799>>, <<15090, 16970, 4766, 24944, 2689>>,
       <<31293, 22591, 31573, 9639, 2584>>, <<13526, 14688, 9544, 31541, 2482>>, <<20277, 22597, 23748, 19798, 2385>>,
       <<31156, 2743, 6608, 2075, 2292>>, <<31784, 3113, 27264, 6233, 2202>>, <<22233, 6469, 1618, 27562, 2115>>,
       <<26283, 23716, 2280, 28764, 2032>>, <<7302, 30313, 21152, 5489, 1953>>, <<2454, 10504, 3462, 19095, 1876>>,
       <<1005, 10342, 21814, 28, 1803>>, <<2558, 12395, 85, 9968, 1732>>, <<3785, 26726, 2628, 12438, 1664>>,
       <<1604, 13254, 7125, 3877, 1599>>, <<18224, 27019, 12735, 13631, 1536>>, <<30375, 1277, 24504, 5644, 1476>>,
       <<30279, 15901, 12028, 9526, 1418>>, <<29372, 6513, 5965, 22241, 1362>>, <<25555, 26468, 4417, 8105, 1309>>,
       <<11539, 24005, 16639, 29852, 1257>>, <<4786, 29725, 14427, 19255, 1208>>, <<12311, 30626, 20348, 6495, 1161>>,
       <<5330, 26477, 4891, 21856, 1115>>, <<20313, 5945, 18314, 30181, 1071>>, <<11542, 22574, 32685, 29177, 1029>>,
       <<27947, 32151, 18215, 16641, 989>>, <<26449, 249, 24299, 23222, 950>>, <<11211, 20187, 2944, 14119, 913>>,
       <<16824, 26070, 29779, 20143, 877>>, <<592, 27954, 4944, 6651, 843>>, <<18694, 16659, 13368, 4604, 810>>,
       <<18305, 10632, 776, 12270, 778>>, <<24116, 2186, 10465, 27982, 747>>, <<26057, 17163, 30425, 17372, 718>>,
       <<279, 812, 7730, 11672, 690>>, <<26093, 12088, 30050, 9402, 663>>, <<15052, 4871, 18817, 9145, 637>>,
       <<15574, 16586, 15240, 9536, 612>>, <<32236, 7333, 10497, 9265, 588>>, <<7673, 23561, 8097, 7073, 565>>,
       <<23488, 35, 23411, 1750, 543>>, <<23457, 31384, 20241, 24903, 521>>, <<5029, 15805, 13735, 9879, 501>>,
       <<834, 30475, 11829, 21141, 481>>, <<4103, 7132, 24542, 24890, 462>>, <<19561, 18099, 9922, 20137, 444>>,
       <<25579, 10019, 18736, 5929, 427>>, <<28656, 30828, 13501, 14121, 410>>, <<31664, 5114, 17165, 11066, 394>>,
       <<26466, 17817, 1508, 28689, 378>>, <<15649, 2094, 6743, 642, 364>>, <<16372, 17320, 690, 24451, 349>>,
       <<18859, 2108, 1777, 1063, 336>>, <<14657, 6252, 7020, 28063, 322>>, <<12613, 23405, 19858, 6456, 310>>,
       <<26126, 3247, 13925, 1115, 298>>, <<19828, 11295, 29310, 11401, 286>>, <<11496, 21930, 8049, 3935, 275>>,
       <<24468, 15908, 24135, 10894, 264>>, <<32502, 8255, 23270, 31714, 253>>, <<24858, 26189, 22581, 315, 244>>,
       <<31552, 21889, 16589, 14479, 234>>, <<28592, 28056, 15360, 8168, 225>>, <<11291, 5288, 18203, 13668, 216>>,
       <<25943, 713, 21158, 30516, 207>>, <<30568, 13457, 25484, 25499, 199>>, <<1250, 30282, 14326, 30958, 191>>,
       <<12887, 23783, 28602, 13713, 184>>, <<32061, 15648, 14391, 6139, 177>>, <<21127, 25869, 31617, 7855, 170>>,
       <<4465, 2480, 4793, 18499, 163>>, <<91, 9, 31593, 4950, 157>>, <<28516, 30964, 4055, 32411, 150>>,
       <<2862, 4233, 16933, 2252, 145>>, <<10027, 5384, 23066, 12468, 139>>, <<14978, 30504, 13716, 29993, 133>>,
       <<28691, 23925, 2927, 21772, 128>>, <<24501, 22363, 12494, 20297, 123>>, <<5126, 10742, 24762, 25304, 118>>,
       <<8068, 10625, 1520, 3772, 114>>, <<27968, 1580, 1748, 20991, 109>>, <<27992, 25219, 4969, 11191, 105>>,
       <<3407, 29856, 30023, 6914, 101>>, <<1222, 23099, 24938, 7945, 97>>, <<28836, 10873, 19415, 14075, 93>>,
       <<15979, 12099, 15612, 25104, 89>>, <<31091, 2851, 10430, 8072, 86>>, <<21037, 26724, 18205, 28330, 82>>,
       <<10408, 8754, 28268, 20165, 79>>, <<15648, 10640, 28407, 16175, 76>>, <<32349, 13714, 28708, 16196, 73>>,
       <<10526, 6404, 20201, 20071, 70>>, <<22914, 24414, 32148, 27648, 67>>, <<469, 6126, 25820, 6015, 65>>,
       <<4081, 30764, 17949, 20568, 62>>, <<29798, 15883, 7887, 5637, 60>>, <<17843, 30731, 3337, 26629, 57>>,
       <<25675, 5028, 13610, 17884, 55>>, <<22913, 19234, 10361, 12052, 53>>, <<15388, 16926, 19669, 9018, 51>>,
       <<19404, 21502, 17738, 8673, 49>>, <<24026, 18914, 23451, 10911, 47>>, <<24886, 23934, 27304, 15631, 45>>,
       <<2297, 7325, 18865, 22736, 43>>, <<2376, 28006, 14435, 32132, 41>>, <<23401, 7730, 19384, 10961, 40>>,
       <<28466, 5291, 23432, 24673, 38>>, <<28539, 22360, 28897, 7649, 37>>, <<23734, 21140, 13578, 25346, 35>>,
       <<32014, 24122, 24878, 12150, 34>>, <<28053, 11337, 11953, 757, 33>>, <<9221, 27205, 18460, 23863, 31>>,
       <<19342, 32611, 15016, 15865, 30>>, <<13201, 28806, 26706, 9465, 29>>, <<23936, 4292, 31360, 4601, 28>>,
       <<12144, 16867, 21800, 1213, 27>>, <<18181, 9105, 2688, 32011, 25>>, <<31876, 10916, 20254, 31402, 24>>,
       <<16398, 13036, 28313, 32102, 23>>, <<19806, 13966, 16535, 1292, 23>>, <<14848, 27985, 7754, 4458, 22>>,
       <<27417, 11432, 22617, 8784, 21>>, <<9506, 30466, 11559, 14226, 20>>, <<5908, 15755, 16264, 20739, 19>>,
       <<15410, 27551, 3524, 28282, 18>>, <<18824, 26170, 26883, 4045, 18>>, <<951, 15406, 27908, 13527, 17>>,
       <<5210, 21907, 30764, 23922, 16>>, <<25522, 492, 9191, 2427, 16>>, <<5923, 21699, 15693, 14542, 15>>,
       <<30554, 20533, 15902, 27467, 14>>, <<24813, 27666, 17910, 8402, 14>>, <<5731, 5757, 5073, 22853, 13>>,
       <<18975, 22813, 32710, 5253, 13>>, <<23568, 23341, 29965, 21112, 12>>, <<20169, 1425, 27701, 4866, 12>>,
       <<1001, 6788, 26009, 22025, 11>>, <<26531, 7737, 25617, 7028, 11>>, <<17540, 31044, 26576, 25387, 10>>,
       <<22824, 18543, 27006, 11543, 10>>, <<14067, 22616, 21881, 31010, 9>>, <<4926, 21787, 1873, 18231, 9>>,
       <<7477, 16424, 17769, 5952, 9>>, <<5969, 18341, 15559, 26923, 8>>, <<19702, 9142, 32015, 15588, 8>>,
       <<22911, 9899, 29859, 4698, 8>>, <<22810, 13642, 27886, 27003, 7>>, <<14266, 25712, 1745, 16951, 7>>,
       <<1891, 217, 14135, 7292, 7>>, <<9736, 19774, 17348, 30780, 6>>, <<1244, 18949, 16307, 21864, 6>>,
       <<2303, 24698, 2244, 13298, 6>>, <<8993, 21024, 17492, 5067, 6>>, <<13909, 21203, 23692, 29927, 5>>,
       <<32222, 14980, 32176, 22329, 5>>, <<4385, 16670, 4998, 15030, 5>>, <<6907, 15518, 18138, 8016, 5>>,
       <<31077, 24288, 31512, 1277, 5>>, <<23184, 30102, 19457, 27571, 4>>, <<6850, 13284, 2933, 21351, 4>>,
       <<9010, 4569, 16210, 15374, 4>>, <<20148, 21112, 8044, 9632, 4>>, <<21133, 17767, 5017, 4115, 4>>,
       <<15779, 23950, 12747, 31582, 3>>, <<10702, 14839, 15429, 26489, 3>>, <<3550, 16923, 8155, 21596, 3>>,
       <<1412, 31361, 29257, 16894, 3>>, <<8737, 14889, 28825, 12377, 3>>, <<10044, 27817, 32148, 8037, 3>>,
       <<11196, 4141, 8270, 3868, 3>>, <<8725, 8636, 690, 32630, 2>>, <<27742, 11559, 28715, 28780, 2>>,
       <<31885, 14590, 21584, 25082, 2>>, <<11987, 18855, 14754, 21529, 2>>, <<8026, 14711, 18518, 18115, 2>>,
       <<17158, 9791, 17706, 14835, 2>>, <<3185, 14133, 4167, 11684, 2>>, <<26055, 140, 9263, 8656, 2>>,
       <<17143, 19562, 5297, 5747, 2>>, <<32403, 4857, 3569, 2952, 2>>, <<2688, 28071, 21356, 266, 2>>,
       <<11194, 21366, 16150, 30454, 1>>, <<26839, 28275, 16497, 27975, 1>>, <<27781, 23568, 23482, 25593, 1>>,
       <<17029, 11288, 10518, 23305, 1>>, <<26082, 29599, 21450, 21106, 1>>, <<27947, 19201, 6527, 18994, 1>>,
       <<5395, 3988, 18820, 16964, 1>>, <<20249, 17224, 17439, 15014, 1>>, <<8670, 26095, 31205, 13140, 1>>,
       <<24755, 9525, 27412, 11340, 1>>, <<21292, 16864, 9972, 9611, 1>>, <<6894, 2571, 19269, 7949, 1>>,
       <<17229, 18813, 936, 6353, 1>> >>

\* floor(2^75 * v) for a number 0 < v <= 1
Scaled(v) ==
    IF v.e + STEP_BITS >= 0 THEN BigShl(v.m, v.e + STEP_BITS)
    ELSE BigShr(v.m, -(v.e + STEP_BITS))

\* floor(t / 2^45) for t <= 2^75
Coarse(t) ==
    Limb(t, 4) + LIMB_BASE * Limb(t, 5) + LIMB_BASE * LIMB_BASE * Limb(t, 6)

\* v if v <= 1, else 1 / v, for a number v > 0
Folded(v) == IF Gt(v, One) THEN Div(One, v) ELSE v

\* Whether f is within 2^-45 (relative) of the table entry t, given their
\* coarse parts c and ct.  std::log is accurate to a few units of the last
\* of its 53 bits and the product by 25.0 is rounded once more, so what
\* round() makes of a value this near a step depends on the library: both
\* neighbours are outcomes.  Farther from a step the result is determined.
Near(f, c, t, ct) ==
    /\ ct <= c + 1
    /\ ct >= c - 1
    /\ BigCmp(BigAdd(f, BigOf(ct)), t) >= 0
    /\ BigCmp(f, BigAdd(t, BigOf(ct))) <= 0

\* whether v is that near one of the values where round(-ln(v) * 25) steps
NearStep(v) ==
    IsFinite(v) /\ Gt(v, Zero)
    /\ \E f \in {Scaled(Folded(v))} : \E c \in {Coarse(f)} :
           \E k \in 1 .. 256 : Near(f, c, ExpTable[k], Coarse(ExpTable[k]))

\* whether the value scaled to f (coarse part c) lies below the step of table
\* entry t (coarse part ct); up decides within the window of Near
BelowStep(f, c, t, ct, up) ==
    IF ct > c + 1 THEN TRUE
    ELSE IF ct < c - 1 THEN FALSE
    ELSE IF Near(f, c, t, ct) THEN up
    ELSE BigCmp(f, t) < 0

\* |round(-ln(v) * 25)| for a number v > 0, saturating at 256; up tells, for
\* v near a step, whether the step is taken
LogSteps(v, up) ==
    TheOne({ TheOne({ Cardinality({k \in 1 .. 256 :
                          BelowStep(f, c, ExpTable[k], Coarse(ExpTable[k]), up)}) :
                        c \in {Coarse(f)} }) :
               f \in {Scaled(Folded(v))} })

\* mutant: the sentinel of a non-positive value is 0
RoundedThickness_ZeroSentinel(v, ub) ==
    IF ~Gt(v, Zero) THEN 0
    ELSE IF ~IsFinite(v) THEN (IF ub.mode = "via_int" THEN -1 ELSE ub.byte)
    ELSE IF Gt(v, One) THEN -LogSteps(v, ub.up)
    ELSE LogSteps(v, ub.up)

\* static_cast<int>(std::round(t * 25.0)) with t of line 248; beyond 256 the
\* result is given as 256 or -256 (lines 250-251 clamp it); ub is the outcome
\* of the undefined conversion of an infinite t (a negative int through
\* x86-64's conversion, given as -1: line 250 clamps it) and of std::log near
\* a step
RoundedThickness(v, ub) ==
    IF ~Gt(v, Zero) THEN LOG_SENTINEL * THICKNESS_SCALE
    ELSE IF ~IsFinite(v) THEN (IF ub.mode = "via_int" THEN -1 ELSE ub.byte)
    ELSE IF Gt(v, One) THEN -LogSteps(v, ub.up)
    ELSE LogSteps(v, ub.up)

\* lines 247-252: the byte of one value
ThicknessByte(v, ub) ==
    LET iv == RoundedThickness(v, ub)
    IN  IF iv < 0 THEN 0 ELSE IF iv > 255 THEN 255 ELSE iv

\* lines 253-255
ThicknessPixel(c, ub) ==
    LET color_value == ThicknessByte(c.value, ub)
    IN  [r |-> color_value, g |-> color_value, b |-> color_value]

\* lines 244-257; ub gives the outcome for each value that has a choice
ThicknessImage(g, ub) ==
    [i \in Rows(g) |-> [j \in Cols(g) |->
        ThicknessPixel(g[i][j], OutcomeOf(ub, g[i][j].value))]]

\* the outcomes of one value: those of the undefined conversion when t is
\* infinite, those of std::log when the value is near a step
ThicknessOutcomes(v) ==
    IF ~IsFinite(v) THEN UndefinedOutcomes
    ELSE {[Defined EXCEPT !.up = u] : u \in BOOLEAN}

\* the outcomes of a grid: one for each value that has a choice (std::log and
\* the conversion are functions of the value)
UndefinedThickness(g) ==
    LET chosen == {v \in ValuesOf(g) :
                      Gt(v, Zero) /\ (~IsFinite(v) \/ NearStep(v))}
    IN  {ub \in [chosen -> UndefinedOutcomes \cup ThicknessOutcomes(One)] :
            \A v \in chosen : ub[v] \in ThicknessOutcomes(v)}

(***************************************************************************)
(* main, after process_data                                                *)
(***************************************************************************)
\* what std::cin >> choice may store
PromptInputs == {0, 1, 2}

\* line 266
CreateAndSaveImage ==
    /\ pc = "save_normalized"
    /\ \E ub \in UndefinedNormalized(main_processed) :
           normalized_image' = NormalizedImage(main_processed, ub)
    /\ pc' = "prompt"
    /\ UNCHANGED <<file, data, processed_data, median_betathrone, overall_median,
                   median_detector, main_processed, thickness_image, choice,
                   exit_code>>

\* lines 270-273, choice == 1
PromptThickness ==
    /\ pc = "prompt"
    /\ choice' = 1
    /\ pc' = "save_thickness"
    /\ UNCHANGED <<file, data, processed_data, median_betathrone, overall_median,
                   median_detector, main_processed, normalized_image,
                   thickness_image, exit_code>>

\* lines 270-273 and 283, choice != 1
PromptDecline ==
    /\ pc = "prompt"
    /\ \E c \in PromptInputs \ {1} : choice' = c
    /\ pc' = "done"
    /\ exit_code' = 0
    /\ UNCHANGED <<file, data, processed_data, median_betathrone, overall_median,
                   median_detector, main_processed, normalized_image,
                   thickness_image>>

\* lines 274-275 and 283
CalculateAndSaveThickness ==
    /\ pc = "save_thickness"
    /\ \E ub \in UndefinedThickness(main_processed) :
           thickness_image' = ThicknessImage(main_processed, ub)
    /\ pc' = "done"
    /\ exit_code' = 0
    /\ UNCHANGED <<file, data, processed_data, median_betathrone, overall_median,
                   median_detector, main_processed, normalized_image, choice>>

Next ==
    \/ ReadData
    \/ ReadDataNoFile
    \/ ReadDataZero
    \/ Background
    \/ BetaThorne
    \/ BetaThorneThrow
    \/ Detector
    \/ DetectorThrow
    \/ DivideClamp
    \/ CreateAndSaveImage
    \/ PromptThickness
    \/ PromptDecline
    \/ CalculateAndSaveThickness

Spec == Init /\ [][Next]_vars

(***************************************************************************)
(* The two encoders as functions of a cell: a grid of one row of three     *)
(* cells, a value v calibrated in column 0 and not calibrated in column 1  *)
(* and a value w not calibrated in column 2, is handed to                  *)
(* create_and_save_image and then, on request, to                          *)
(* calculate_and_save_thickness.                                           *)
(***************************************************************************)
MaxDen == 12

SampleValues ==
    { Ratio(p, q) : p \in -MaxDen .. 2 * MaxDen, q \in 1 .. MaxDen }
    \cup { NaN, PosInf, Ratio(3679, 10000), Ratio(1, 1000), Ratio(1, 100000),
           Ratio(367, 10000000), Ratio(999, 1000), Ratio(256, 255), Ratio(-1, 255),
           SignedZero(TRUE), Mul(Ratio(1, 49), FromInt(49)),
           Ratio(1960397347, 2000000000) }

\* the two doubles next to exp(-(k + 1/2) / 25), below and above, for k = 0,
\* 24 and 104
Step0Below == Pack(FALSE, <<27739, 14171, 30502, 250>>, -53)
Step0Above == Pack(FALSE, <<27740, 14171, 30502, 250>>, -53)
Step24Below == Pack(FALSE, <<8217, 12210, 5219, 192>>, -54)
Step24Above == Pack(FALSE, <<8218, 12210, 5219, 192>>, -54)
Step104Below == Pack(FALSE, <<24286, 23251, 21323, 250>>, -59)
Step104Above == Pack(FALSE, <<24287, 23251, 21323, 250>>, -59)

\* 0.375311098425 and 0.375311098926: on either side of exp(-24.5 / 25), far
\* enough from it for round(-ln(v) * 25) to be determined (25 and 24)
Beside24Below == Pack(FALSE, <<27366, 11975, 5219, 192>>, -54)
Beside24Above == Pack(FALSE, <<8612, 12251, 5219, 192>>, -54)

\* <<v, w>> of the rows tried: every sample with itself, and pairs of
\* different values that both have a choice or lie around one step
SamplePairs ==
    { <<v, v>> : v \in SampleValues }
    \cup { <<Beside24Below, Beside24Above>>, <<Step0Below, Step0Above>>,
           <<Step24Below, Step24Above>>, <<Step104Below, Step104Above>>,
           <<Step24Above, Step104Below>>, <<PosInf, Step24Below>>,
           <<NaN, Ratio(-1, 255)>>, <<Ratio(256, 255), PosInf>> }

SampleRow(v, w) ==
    [i \in {0} |-> [j \in {0, 1, 2} |->
        [value |-> (IF j = 2 THEN w ELSE v), is_calibrated |-> (j = 0)]]]

InitEncode ==
    /\ pc = "save_normalized"
    /\ file = [is_open |-> TRUE, height |-> 1, width |-> 3, cells |-> Empty]
    /\ data = Empty
    /\ processed_data = Empty
    /\ median_betathrone = Empty
    /\ overall_median = Zero
    /\ median_detector = Empty
    /\ \E p \in SamplePairs : main_processed = SampleRow(p[1], p[2])
    /\ normalized_image = Empty
    /\ thickness_image = Empty
    /\ choice = 0
    /\ exit_code = -1

NextEncode ==
    \/ CreateAndSaveImage
    \/ PromptThickness
    \/ PromptDecline
    \/ CalculateAndSaveThickness

SpecEncode == InitEncode /\ [][NextEncode]_vars

(***************************************************************************)
(* Properties                                                              *)
(***************************************************************************)
GridRows == 0 .. file.height - 1
GridCols == 0 .. file.width - 1
InLastRows(i) == i >= file.height - BETA_THORNE_ROWS_COUNT
InLastCols(j) == j >= file.width - MEDIAN_DETECTOR_COUNT
LargeEnough ==
    file.height >= BETA_THORNE_ROWS_COUNT /\ file.width >= MEDIAN_DETECTOR_COUNT

\* max(0, raw - 2048) as a double
Subtracted(raw) ==
    FromInt(IF raw - SIGNAL_THRESHOLD > 0 THEN raw - SIGNAL_THRESHOLD ELSE 0)

\* x <= y
Le(x, y) == ~IsNaN(x) /\ ~IsNaN(y) /\ ~Gt(x, y)

\* min(x, 1)
AtMostOne(x) == IF Gt(x, One) THEN One ELSE x

\* 0 <= x <= 1
InUnit(x) == Le(Zero, x) /\ Le(x, One)

\* C1: in the grid process_data returns for a grid of at least 15 rows and 50
\* columns, a cell is calibrated if and only if it lies in the last 15 rows
\* or in the last 50 columns.
C1_FlagsMarkTheStrips ==
    (LargeEnough /\ main_processed # Empty) =>
        /\ DOMAIN main_processed = GridRows
        /\ \A i \in GridRows :
              /\ DOMAIN main_processed[i] = GridCols
              /\ \A j \in GridCols :
                    main_processed[i][j].is_calibrated
                        <=> (InLastRows(i) \/ InLastCols(j))

C1_Witness ==
    /\ pc = "save_normalized"
    /\ file.height = 17 /\ file.width = 52
    /\ ~main_processed[1][1].is_calibrated
    /\ main_processed[1][2].is_calibrated
    /\ main_processed[2][1].is_calibrated
    /\ main_processed[16][51].is_calibrated

\* C2: every cell of the grid process_data returns has value <= 1.0, also
\* when a row's column reference is 0.
C2_EveryValueAtMostOne ==
    (LargeEnough /\ main_processed # Empty) =>
        \A i \in GridRows : \A j \in GridCols :
            LET v == main_processed[i][j].value
            IN  Le(v, One)

\* C3: with a zero dimension, fewer than 15 rows or fewer than 50 columns the
\* run never reaches "done": it is on its way to the failure or in the error
\* state, where the exit code is 1 (and is not set before); no image is ever
\* written, process_data returns no grid, and a zero dimension fails before
\* process_data starts, too few rows before the detector stage.
C3_SmallGridFailsWithoutOutput ==
    LET zero == file.height = 0 \/ file.width = 0
    IN  (file.is_open /\ (zero \/ ~LargeEnough)) =>
            /\ normalized_image = Empty
            /\ thickness_image = Empty
            /\ main_processed = Empty
            /\ pc \in {"read", "background", "beta_thorne", "detector", "error"}
            /\ pc = "error" => exit_code = 1
            /\ pc # "error" => exit_code = -1
            /\ zero => pc \in {"read", "error"} /\ processed_data = Empty
            /\ file.height < BETA_THORNE_ROWS_COUNT => pc # "detector"

C3_Witness ==
    /\ pc = "error"
    /\ file.height = 20 /\ file.width = 49
    /\ processed_data # Empty
    /\ exit_code = 1

\* C4: after stage 2, in every column whose readings in the last 15 rows are
\* all at most 2048, the reference average is 0 and every cell above the last
\* 15 rows is exactly 0 (and not calibrated), whatever the overall average.
C4_ZeroRowReferenceForcesZero ==
    (pc = "detector" /\ LargeEnough) =>
        \A j \in GridCols :
            (\A i \in GridRows : InLastRows(i) => data[i][j] <= SIGNAL_THRESHOLD)
            => /\ median_betathrone[j] = Zero
               /\ \A i \in GridRows :
                      ~InLastRows(i) =>
                          /\ processed_data[i][j].value = Zero
                          /\ ~processed_data[i][j].is_calibrated

C4_Witness ==
    /\ pc = "detector"
    /\ file.height = 17 /\ file.width = 52
    /\ \A i \in GridRows : InLastRows(i) => data[i][0] <= SIGNAL_THRESHOLD
    /\ data[0][0] > SIGNAL_THRESHOLD
    /\ overall_median # Zero
    /\ processed_data[0][0].value = Zero

\* the 20 x 60 file whose every reading is 3000
UniformScenario ==
    /\ file.height = 20 /\ file.width = 60
    /\ \A i \in GridRows : \A j \in GridCols : file.cells[i][j] = 3000

\* C5: on the 20 x 60 grid of readings 3000, stage 1 gives 952 everywhere,
\* every column reference equals the overall reference so stage 2 leaves the
\* cells above the last 15 rows at 952, the column reference of each of the
\* first 5 rows is 952, and every cell not calibrated ends at 952 / 952 = 1.
C5_UniformGridEndsAtOne ==
    UniformScenario =>
        /\ pc = "beta_thorne" =>
               \A i \in GridRows : \A j \in GridCols :
                   processed_data[i][j].value = FromInt(952)
        /\ pc = "detector" =>
               /\ \A j \in GridCols : median_betathrone[j] = overall_median
               /\ \A i \in 0 .. 4 : \A j \in GridCols :
                      processed_data[i][j].value = FromInt(952)
        /\ pc = "divide_clamp" =>
               \A i \in 0 .. 4 : median_detector[i] = FromInt(952)
        /\ main_processed # Empty =>
               \A i \in GridRows : \A j \in GridCols :
                   ~main_processed[i][j].is_calibrated =>
                       /\ i \in 0 .. 4 /\ j \in 0 .. 9
                       /\ main_processed[i][j].value = One

C5_Witness ==
    /\ UniformScenario
    /\ pc = "save_normalized"
    /\ ~main_processed[4][9].is_calibrated
    /\ main_processed[4][9].value = One

Red == [r |-> 255, g |-> 0, b |-> 0]
Gray(k) == [r |-> k, g |-> k, b |-> k]

\* value * 255 as create_and_save_image computes it
Product255(v) == Mul(v, FromInt(255))

\* C6 as stated: a calibrated cell is encoded as full red whatever its value,
\* any other cell with a value in [0, 1] as three channels round(value * 255).
C6_GrayIsRounded ==
    normalized_image # Empty =>
        \A i \in DOMAIN main_processed : \A j \in DOMAIN main_processed[i] :
            LET c == main_processed[i][j]
                v == c.value
            IN  /\ c.is_calibrated => normalized_image[i][j] = Red
                /\ (~c.is_calibrated /\ InUnit(v)) =>
                       normalized_image[i][j] = Gray(RoundInt(Product255(v)))

\* C6, amended: a calibrated cell is encoded as full red whatever its value,
\* any other cell with a value in [0, 1] as three equal channels k, the
\* integer part of the double value * 255: k <= value * 255 < k + 1 (the
\* cast truncates, it does not round).
C6_GrayIsTruncated ==
    normalized_image # Empty =>
        \A i \in DOMAIN main_processed : \A j \in DOMAIN main_processed[i] :
            LET c == main_processed[i][j]
                v == c.value
                px == normalized_image[i][j]
            IN  /\ c.is_calibrated => px = Red
                /\ (~c.is_calibrated /\ InUnit(v)) =>
                       /\ px.r \in 0 .. 255
                       /\ px = Gray(px.r)
                       /\ Le(FromInt(px.r), Product255(v))
                       /\ Gt(FromInt(px.r + 1), Product255(v))

C6_Witness ==
    /\ normalized_image # Empty
    /\ main_processed[0][1].value = Ratio(1, 2)
    /\ ~main_processed[0][1].is_calibrated
    /\ normalized_image[0][1] = Gray(127)
    /\ main_processed[0][0].is_calibrated
    /\ normalized_image[0][0] = Red

\* C7: every cell, calibrated or not, is encoded as three equal channels in
\* 0..255 that depend on its value alone (and, within 2^-45 of a step, on
\* std::log): 0 for value 1.0, 250 for every value that is not positive, 25
\* for 0.3679 (e^-1), and for 0 < v <= 1 a byte b between 25 (1 - v) and
\* 25 (1 - v) / v, the bounds of -25 ln(v): with v = m / p (p a power of 2),
\* (b + 1) p > 25 (p - m) and (b - 1) m < 25 (p - m).
C7_ThicknessByte ==
    thickness_image # Empty =>
        \A i \in DOMAIN main_processed : \A j \in DOMAIN main_processed[i] :
            LET v == main_processed[i][j].value
                px == thickness_image[i][j]
                p == BigShl(<<1>>, -v.e)
                gap == BigMul(BigOf(25), BigSub(p, v.m))
            IN  /\ px.r \in 0 .. 255
                /\ px = Gray(px.r)
                /\ \A k \in DOMAIN main_processed[i] :
                       main_processed[i][k].value = v => thickness_image[i][k] = px
                /\ v = One => px.r = 0
                /\ ~Gt(v, Zero) => px.r = 250
                /\ v = Ratio(3679, 10000) => px.r = 25
                /\ (Gt(v, Zero) /\ Le(v, One)) =>
                       /\ BigCmp(BigMul(BigOf(px.r + 1), p), gap) > 0
                       /\ px.r = 0 \/ BigCmp(BigMul(BigOf(px.r - 1), v.m), gap) < 0

C7_Witness ==
    /\ thickness_image # Empty
    /\ main_processed[0][0].value = Ratio(3679, 10000)
    /\ main_processed[0][0].is_calibrated
    /\ ~main_processed[0][1].is_calibrated
    /\ thickness_image[0][0] = Gray(25)
    /\ thickness_image[0][1] = Gray(25)

\* the value stage 2 leaves in a cell above the last 15 rows
ScaledReading(raw, j) ==
    IF ~NonZero(median_betathrone[j]) THEN Zero
    ELSE Mul(Subtracted(raw), Div(overall_median, median_betathrone[j]))

\* C8 as stated: every calibrated cell of the returned grid holds
\* max(0, raw - 2048), cut at 1.0 by stage 4.
C8_CalibratedKeepRawValue ==
    (LargeEnough /\ main_processed # Empty) =>
        \A i \in GridRows : \A j \in GridCols :
            main_processed[i][j].is_calibrated =>
                main_processed[i][j].value = AtMostOne(Subtracted(data[i][j]))

\* C8, amended: every cell of the last 15 rows holds max(0, raw - 2048) cut at
\* 1.0; a cell of the last 50 columns above the last 15 rows holds the value
\* stage 2 scaled (times overall_row_ref / row_ref[j], or 0 when row_ref[j]
\* is 0) cut at 1.0, and is not divided by col_ref[i].
C8_OnlyReferenceRowsKeepRawValue ==
    (LargeEnough /\ main_processed # Empty) =>
        \A i \in GridRows : \A j \in GridCols :
            /\ InLastRows(i) =>
                   main_processed[i][j].value = AtMostOne(Subtracted(data[i][j]))
            /\ (~InLastRows(i) /\ InLastCols(j)) =>
                   main_processed[i][j].value =
                       AtMostOne(ScaledReading(data[i][j], j))

C8_Witness ==
    /\ pc = "save_normalized"
    /\ file.height = 17 /\ file.width = 52
    /\ main_processed[0][51].is_calibrated
    /\ main_processed[0][51].value # AtMostOne(Subtracted(data[0][51]))
    /\ main_processed[0][51].value # Zero
    /\ main_processed[16][51].value = One
    /\ median_detector[0] # One

\* C9: when stage 3 is about to divide, the cells it will divide (those not
\* calibrated) lie above the last 15 rows; for such a row col_ref[i] is the
\* sum of the values of all its 50 trailing cells divided by 50; for a row of
\* the last 15, col_ref[i] is 0 and every cell is calibrated.
C9_ColumnReference ==
    (pc = "divide_clamp" /\ LargeEnough) =>
        \A i \in GridRows :
            LET first == file.width - MEDIAN_DETECTOR_COUNT
                total == SumRange([j \in first .. file.width - 1 |->
                                      processed_data[i][j].value],
                                  first, file.width - 1)
            IN  /\ ~InLastRows(i) =>
                       median_detector[i] = Div(total, FromInt(50))
                /\ InLastRows(i) =>
                       /\ median_detector[i] = Zero
                       /\ \A j \in GridCols : processed_data[i][j].is_calibrated
                /\ \A j \in GridCols :
                       ~processed_data[i][j].is_calibrated =>
                           ~InLastRows(i) /\ ~InLastCols(j)

C9_Witness ==
    /\ pc = "divide_clamp"
    /\ file.height = 17 /\ file.width = 52
    /\ ~processed_data[0][0].is_calibrated
    /\ processed_data[0][0].value # Zero
    /\ median_detector[0] # FromInt(Trunc(median_detector[0]))
    /\ median_detector[16] = Zero
    /\ processed_data[16][51].value # Zero

\* a double that is a number and not negative
NonNegative(x) == IsFinite(x) /\ Le(Zero, x)

\* C10 in a state: after every stage each value that is a number is >= 0, as
\* are the references; a returned value is in [0, 1] or NaN.
C10_State ==
    /\ processed_data # Empty =>
           \A i \in DOMAIN processed_data : \A j \in DOMAIN processed_data[i] :
               LET v == processed_data[i][j].value
               IN  IsNaN(v) \/ NonNegative(v)
    /\ median_betathrone # Empty =>
           /\ \A j \in DOMAIN median_betathrone :
                  IsNaN(median_betathrone[j]) \/ NonNegative(median_betathrone[j])
           /\ IsNaN(overall_median) \/ NonNegative(overall_median)
    /\ median_detector # Empty =>
           \A i \in DOMAIN median_detector : NonNegative(median_detector[i])
    /\ (LargeEnough /\ pc \in {"detector", "divide_clamp"}) =>
           \A i \in GridRows : \A j \in GridCols :
               NonNegative(processed_data[i][j].value)
    /\ (LargeEnough /\ median_betathrone # Empty) =>
           /\ \A j \in GridCols : NonNegative(median_betathrone[j])
           /\ NonNegative(overall_median)
    /\ main_processed # Empty =>
           \A i \in DOMAIN main_processed : \A j \in DOMAIN main_processed[i] :
               LET v == main_processed[i][j].value
               IN  IsNaN(v) \/ InUnit(v)

\* C10: every step leads to a state where the values and the references that
\* are numbers are >= 0 and the returned values are in [0, 1] or NaN; and a
\* NaN comes out of the division only for a cell that held 0 in a row whose
\* column reference is 0.
C10_NeverNegative ==
    [][/\ C10_State'
       /\ pc = "divide_clamp" =>
              \A i \in DOMAIN processed_data : \A j \in DOMAIN processed_data[i] :
                  IsNaN(processed_data'[i][j].value) =>
                      /\ ~processed_data[i][j].is_calibrated
                      /\ processed_data[i][j].value = Zero
                      /\ median_detector[i] = Zero]_vars

C10_Witness ==
    /\ pc = "save_normalized"
    /\ file.height = 17 /\ file.width = 52
    /\ data[0][51] < 0
    /\ median_detector[0] = Zero
    /\ IsNaN(main_processed[0][0].value)
    /\ data[0][1] > SIGNAL_THRESHOLD
    /\ main_processed[0][1].value = One
    /\ ~main_processed[0][1].is_calibrated

====
